---------------------------- MODULE Spec2Model ----------------------------
(***************************************************************************)
(* A model of the carbon_emission package: the remote fetch loop of        *)
(* APIReader.get_data, the control flow of main(), and the table           *)
(* operations of DataPrep (filtering, grouping, reshaping, merging), and   *)
(* the operations of Prepped and ModelBuilder that write to their table.   *)
(*                                                                         *)
(* A DataFrame is a sequence of rows; a row is a record (long tables) or a *)
(* function from column label to cell (wide tables).  A column label that  *)
(* the code inspects character by character is a tuple of characters.     *)
(***************************************************************************)
EXTENDS Integers, Sequences, FiniteSets, TLC

VARIABLES
    mode,         \* "idle", "main" (main() runs) or "direct" (get_data(start, end) called)
    pc,           \* index into MainSeq of the next statement of main(); 0 outside main()
    crashed,      \* the exception that ended main(), "none" while it runs
    oplog,        \* the statements of main() executed so far, in order
    fetch_failed, \* some emissions page or state-boundary fetch has failed
    eda_map,      \* EDAPerformer object has the attribute usa_map
    gdp_map,      \* cleaner_gdp (DataPrep) has the attribute usa_map
    co2_map,      \* cleaner_co2 (DataPrep) has the attribute usa_map
    inflight,     \* the GET the (single) thread is blocked in, and the server's answer
    gd_pc,        \* get_data: "idle", "loop", "await", "returned"
    gd_args,      \* get_data: the arguments start, end as passed
    gd_i,         \* get_data: the loop variable i
    gd_end,       \* get_data: the local end after line 57
    df_combined,  \* get_data: the pages concatenated so far
    gd_ret,       \* get_data: the value returned
    requests,     \* the requests made to the emissions API, in order, with the answers
    held,         \* per requested year, the number of records the API holds for it
    dp_df,        \* DataPrep: self.df
    dp_map,       \* DataPrep: self.usa_map["name"], and whether get_map set it
    dp_op,        \* DataPrep: the method called last
    dp_prev,      \* DataPrep: self.df as it was when that method was called
    dp_arg,       \* DataPrep: the argument of that method
    dp_ret,       \* DataPrep: the value that method returned
    dp_err,       \* DataPrep: the exception that method raised, or "none"
    sg_df,        \* Prepped / ModelBuilder: self.df, the table object it was built on
    sg_in,        \* that table as it was when the object was built
    sg_op,        \* the class of the object, then the method called on it
    sg_data,      \* state_fuel_cluster: the column labels of the local data
    sg_ret,       \* the value that method returned
    sg_err        \* the exception that method raised, or "none"

fvars == <<mode, pc, crashed, oplog, fetch_failed, eda_map, gdp_map, co2_map,
           inflight, gd_pc, gd_args, gd_i, gd_end, df_combined, gd_ret,
           requests, held>>

svars == <<sg_df, sg_in, sg_op, sg_data, sg_ret, sg_err>>

dvars == <<dp_df, dp_map, dp_op, dp_prev, dp_arg, dp_ret, dp_err, svars>>

vars == <<fvars, dvars>>

----------------------------------------------------------------------------
(* Bounds of the model.                                                     *)

\* get_data(start, end) is tried with start and end up to this far past 2017.
ArgSpan == 2

----------------------------------------------------------------------------
(* Program constants.                                                       *)

\* Python's None where an int is expected (an argument left out).
None == -1

DefaultStart == 2017
DefaultEnd == 2022

\* length=5000 of the request: the most records one response carries.
Length == 5000

\* Python's `x or d`: d when x is falsy (None or 0), else x.
Or(x, d) == IF x = None \/ x = 0 THEN d ELSE x

Min(a, b) == IF a < b THEN a ELSE b

\* What the emissions API returns for a year of which it holds n records, asked
\* with offset and length: the records from offset on, at most length of them.
ServerPage(n, offset, length) == IF n <= offset THEN 0 ELSE Min(n - offset, length)

\* The answers of a server to one GET: a 2xx response with a decodable body, a
\* 2xx response whose body does not decode, a non-OK response, a transport
\* error raised by requests.get, or no answer at all.
Replies == {"ok", "undecodable", "not_ok", "raise", "none"}

NoRequest == [who |-> "none", reply |-> "none"]

RetNone == [kind |-> "None", df |-> <<>>]
RetTable(t) == [kind |-> "DataFrame", df |-> t]
NoRet == [kind |-> "unset", df |-> <<>>]

\* The arguments get_data is called with: a year, or None for one left out.
StartArgs == {None} \cup (DefaultStart .. DefaultStart + ArgSpan)
EndArgs == {None} \cup (DefaultStart .. DefaultStart + ArgSpan + 1)

\* The numbers of records the API may hold for one year.
HeldChoices == {Length, Length + 1}

----------------------------------------------------------------------------
(* main(): its statements in order.                                         *)

\* MainSeq with the regression stage ahead of the clustering stage.
MainSeq_RegressionFirst ==
    << "read_csv", "get_data", "print_heads", "EDAPerformer", "eda_get_map",
       "GeoName_map", "hist_chart", "DataPrep_gdp", "DataPrep_co2",
       "null_check", "drop_null", "delete_columns_gdp", "delete_columns_co2",
       "filter_gdp", "delete_columns_desc", "filter_co2", "gdp_reshape",
       "co2_groupby_year", "co2_groupby_sector", "co2_groupby_fuel",
       "co2_pivot", "gdp_co2", "line_top5gdp", "value_time",
       "sec_name_by_time", "fuel_sector_percen", "plot_pairplot",
       "model_gdp_co2", "scatter", "state_fuel_cluster", "map_fuel",
       "covid_trend" >>

MainSeq ==
    << "read_csv", "get_data", "print_heads", "EDAPerformer", "eda_get_map",
       "GeoName_map", "hist_chart", "DataPrep_gdp", "DataPrep_co2",
       "null_check", "drop_null", "delete_columns_gdp", "delete_columns_co2",
       "filter_gdp", "delete_columns_desc", "filter_co2", "gdp_reshape",
       "co2_groupby_year", "co2_groupby_sector", "co2_groupby_fuel",
       "co2_pivot", "gdp_co2", "line_top5gdp", "value_time",
       "sec_name_by_time", "fuel_sector_percen", "plot_pairplot",
       "state_fuel_cluster", "map_fuel", "model_gdp_co2", "scatter",
       "covid_trend" >>

\* The stages of main(), as its banners announce them: "data loading" (line
\* 30), "EDA" (38), "data prepartion" (48), "data review" (83), Research
\* Question 1, the clustering (97-104), Research Question 2, the regression
\* (106-111); the Covid trend closes the run (113-114).
Stages == << "loading", "EDA", "preparation", "review", "clustering", "regression", "covid" >>

StageNo(step) ==
    CASE step \in {"read_csv", "get_data", "print_heads"} -> 1
      [] step \in {"EDAPerformer", "eda_get_map", "GeoName_map", "hist_chart"} -> 2
      [] step \in {"DataPrep_gdp", "DataPrep_co2", "null_check", "drop_null",
                   "delete_columns_gdp", "delete_columns_co2", "filter_gdp",
                   "delete_columns_desc", "filter_co2", "gdp_reshape",
                   "co2_groupby_year", "co2_groupby_sector", "co2_groupby_fuel",
                   "co2_pivot", "gdp_co2"} -> 3
      [] step \in {"line_top5gdp", "value_time", "sec_name_by_time",
                   "fuel_sector_percen", "plot_pairplot"} -> 4
      [] step \in {"state_fuel_cluster", "map_fuel"} -> 5
      [] step \in {"model_gdp_co2", "scatter"} -> 6
      [] step = "covid_trend" -> 7

\* The statements that clean, reshape, group, merge or model.
PipelineOps ==
    { "drop_null", "delete_columns_gdp", "delete_columns_co2", "filter_gdp",
      "delete_columns_desc", "filter_co2", "gdp_reshape", "co2_groupby_year",
      "co2_groupby_sector", "co2_groupby_fuel", "co2_pivot", "gdp_co2",
      "state_fuel_cluster", "model_gdp_co2" }

\* The statements with no fetch and no use of a usa_map attribute.
PlainSteps ==
    { "EDAPerformer", "hist_chart", "null_check", "drop_null",
      "delete_columns_gdp", "delete_columns_co2", "delete_columns_desc",
      "gdp_reshape", "co2_groupby_year", "co2_groupby_sector",
      "co2_groupby_fuel", "co2_pivot", "gdp_co2", "line_top5gdp", "value_time",
      "sec_name_by_time", "fuel_sector_percen", "plot_pairplot",
      "state_fuel_cluster", "model_gdp_co2", "scatter", "covid_trend" }

Running == mode = "main" /\ crashed = "none" /\ pc \in 1..Len(MainSeq)
At(step) == Running /\ MainSeq[pc] = step
Finished == mode = "main" /\ crashed = "none" /\ pc = Len(MainSeq) + 1

\* The statement at pc completes and control moves to the next one.
Advance == /\ pc' = pc + 1
           /\ oplog' = Append(oplog, MainSeq[pc])
           /\ crashed' = crashed

\* The statement at pc raises: main() ends with the exception.
Raise(exc) == /\ crashed' = exc
              /\ pc' = pc
              /\ oplog' = oplog

gdvars == <<gd_pc, gd_args, gd_i, gd_end, df_combined, gd_ret, requests, held>>
mapvars == <<eda_map, gdp_map, co2_map>>


----------------------------------------------------------------------------
(* APIReader.get_data                                                       *)

\* offset=0 of the request URL.
Offset == 0

\* Lines 55-57: the empty combined table and the defaults of start and end.
GetDataEnter(s, e) ==
    /\ gd_pc = "idle"
    /\ gd_args' = <<s, e>>
    /\ gd_i' = Or(s, DefaultStart)
    /\ gd_end' = Or(e, DefaultEnd)
    /\ df_combined' = <<>>
    /\ gd_pc' = "loop"
    /\ UNCHANGED <<gd_ret, requests, held>>

\* Lines 59-62: the next year of range(start, end) is requested, with offset 0
\* and length 5000.  requests.get is given no timeout: the thread waits for
\* whatever the server does, also when that is nothing.
GetDataRequest ==
    /\ gd_pc = "loop"
    /\ gd_i < gd_end
    /\ inflight = NoRequest
    /\ \E r \in Replies, h \in HeldChoices :
          /\ inflight' = [who |-> "get_data", reply |-> r]
          /\ held' = [y \in (DOMAIN held) \cup {gd_i} |->
                         IF y = gd_i THEN h ELSE held[y]]
          /\ requests' = Append(requests, [year |-> gd_i, reply |-> r])
    /\ gd_pc' = "await"
    /\ UNCHANGED <<gd_args, gd_i, gd_end, df_combined, gd_ret>>
    /\ UNCHANGED <<dvars, mode, pc, crashed, oplog, fetch_failed, mapvars>>

\* GetDataResponse with a failed year asked again instead of giving up.
GetDataResponse_Retry ==
    /\ gd_pc = "await"
    /\ inflight.who = "get_data"
    /\ inflight.reply # "none"
    /\ inflight' = NoRequest
    /\ IF inflight.reply = "ok"
       THEN /\ df_combined' = Append(df_combined,
                  [year |-> gd_i, n |-> ServerPage(held[gd_i], Offset, Length)])
            /\ gd_i' = gd_i + 1
            /\ UNCHANGED <<fetch_failed>>
       ELSE /\ fetch_failed' = TRUE
            /\ UNCHANGED <<df_combined, gd_i>>
    /\ gd_pc' = IF Len(requests) < 4 THEN "loop" ELSE "returned"
    /\ gd_ret' = IF Len(requests) < 4 THEN gd_ret ELSE RetNone
    /\ UNCHANGED <<gd_args, gd_end, requests, held>>
    /\ UNCHANGED <<dvars, mode, pc, crashed, oplog, mapvars>>

\* GetDataResponse with the pages fetched so far returned when a year fails.
GetDataResponse_Partial ==
    /\ gd_pc = "await"
    /\ inflight.who = "get_data"
    /\ inflight.reply # "none"
    /\ inflight' = NoRequest
    /\ IF inflight.reply = "ok"
       THEN /\ df_combined' = Append(df_combined,
                  [year |-> gd_i, n |-> ServerPage(held[gd_i], Offset, Length)])
            /\ gd_i' = gd_i + 1
            /\ gd_pc' = "loop"
            /\ UNCHANGED <<gd_ret, fetch_failed>>
       ELSE /\ gd_ret' = RetTable(df_combined)
            /\ gd_pc' = "returned"
            /\ fetch_failed' = TRUE
            /\ UNCHANGED <<df_combined, gd_i>>
    /\ UNCHANGED <<gd_args, gd_end, requests, held>>
    /\ UNCHANGED <<dvars, mode, pc, crashed, oplog, mapvars>>

\* Lines 63-76: an OK response that decodes is concatenated and the loop goes
\* on; a non-OK response and every exception print a message and return None.
GetDataResponse ==
    /\ gd_pc = "await"
    /\ inflight.who = "get_data"
    /\ inflight.reply # "none"
    /\ inflight' = NoRequest
    /\ IF inflight.reply = "ok"
       THEN /\ df_combined' = Append(df_combined,
                  [year |-> gd_i, n |-> ServerPage(held[gd_i], Offset, Length)])
            /\ gd_i' = gd_i + 1
            /\ gd_pc' = "loop"
            /\ UNCHANGED <<gd_ret, fetch_failed>>
       ELSE /\ gd_ret' = RetNone
            /\ gd_pc' = "returned"
            /\ fetch_failed' = TRUE
            /\ UNCHANGED <<df_combined, gd_i>>
    /\ UNCHANGED <<gd_args, gd_end, requests, held>>
    /\ UNCHANGED <<dvars, mode, pc, crashed, oplog, mapvars>>

\* Line 77: the range is exhausted and the combined table is returned.
GetDataReturn ==
    /\ gd_pc = "loop"
    /\ gd_i >= gd_end
    /\ gd_ret' = RetTable(df_combined)
    /\ gd_pc' = "returned"
    /\ UNCHANGED <<gd_args, gd_i, gd_end, df_combined, requests, held>>
    /\ UNCHANGED <<dvars, mode, pc, crashed, oplog, fetch_failed, mapvars, inflight>>

\* A caller other than main(): get_data(start, end) with any arguments.
StartDirect ==
    /\ mode = "idle"
    /\ mode' = "direct"
    /\ \E s \in StartArgs, e \in EndArgs : GetDataEnter(s, e)
    /\ UNCHANGED <<dvars, pc, crashed, oplog, fetch_failed, mapvars, inflight>>

----------------------------------------------------------------------------
(* main()                                                                   *)

StartMain ==
    /\ mode = "idle"
    /\ mode' = "main"
    /\ pc' = 1
    /\ UNCHANGED <<dvars, crashed, oplog, fetch_failed, mapvars, inflight, gdvars>>

\* Line 32: pd.read_csv of the GDP resource, outside any try.
MainReadCsv ==
    /\ At("read_csv")
    /\ \/ Advance
       \/ Raise("URLError")
    /\ UNCHANGED <<dvars, mode, fetch_failed, mapvars, inflight, gdvars>>

\* Lines 33-34: reader.get_data() with no arguments.
MainGetData ==
    /\ At("get_data")
    /\ GetDataEnter(None, None)
    /\ UNCHANGED <<dvars, mode, pc, crashed, oplog, fetch_failed, mapvars, inflight>>

\* Line 34: get_data has returned; its value is bound to df_co2_raw.
MainGetDataDone ==
    /\ At("get_data")
    /\ gd_pc = "returned"
    /\ Advance
    /\ UNCHANGED <<dvars, mode, fetch_failed, mapvars, inflight, gdvars>>

\* Lines 35-36: df_co2_raw.head() on the value get_data returned.
MainPrintHeads ==
    /\ At("print_heads")
    /\ IF gd_ret.kind = "None" THEN Raise("AttributeError") ELSE Advance
    /\ UNCHANGED <<dvars, mode, fetch_failed, mapvars, inflight, gdvars>>

\* get_map, first half: the GET of the state-boundary resource, no timeout.
GetMapRequest(step) ==
    /\ At(step)
    /\ inflight = NoRequest
    /\ \E r \in Replies : inflight' = [who |-> step, reply |-> r]
    /\ UNCHANGED <<dvars, mode, pc, crashed, oplog, fetch_failed, mapvars, gdvars>>

\* get_map, second half: an OK response that reads sets usa_map; anything else
\* prints a message and returns None, leaving usa_map unset.  The statement of
\* main() that called it completes either way.
GetMapResponse(step, has_map) ==
    /\ At(step)
    /\ inflight.who = step
    /\ inflight.reply # "none"
    /\ inflight' = NoRequest
    /\ fetch_failed' = (fetch_failed \/ inflight.reply # "ok")
    /\ \/ /\ step = "eda_get_map"
          /\ eda_map' = has_map
          /\ UNCHANGED <<gdp_map, co2_map>>
       \/ /\ step = "DataPrep_gdp"
          /\ gdp_map' = has_map
          /\ UNCHANGED <<eda_map, co2_map>>
       \/ /\ step = "DataPrep_co2"
          /\ co2_map' = has_map
          /\ UNCHANGED <<eda_map, gdp_map>>
    /\ Advance
    /\ UNCHANGED <<dvars, mode, gdvars>>

\* eda.py, EDAPerformer.get_map, called at line 41 of main().
EDAPerformer_get_map ==
    \/ GetMapRequest("eda_get_map")
    \/ GetMapResponse("eda_get_map", inflight.reply = "ok")

\* DataPrep.__init__: self.df = df; self.get_map().  Lines 49 and 50 of main().
DataPrep_init ==
    \/ GetMapRequest("DataPrep_gdp")
    \/ GetMapResponse("DataPrep_gdp", inflight.reply = "ok")
    \/ GetMapRequest("DataPrep_co2")
    \/ GetMapResponse("DataPrep_co2", inflight.reply = "ok")

\* A statement that reads self.usa_map: AttributeError when get_map never set it.
UsesMap(step, has_map) ==
    /\ At(step)
    /\ IF has_map THEN Advance ELSE Raise("AttributeError")
    /\ UNCHANGED <<dvars, mode, fetch_failed, mapvars, inflight, gdvars>>

MainGeoNameMap == UsesMap("GeoName_map", eda_map)
MainFilterGdp == UsesMap("filter_gdp", gdp_map)
MainFilterCo2 == UsesMap("filter_co2", co2_map)

\* results.py, ModelBuilder.map_fuel: a GET outside any try, no timeout.
MainMapFuel ==
    \/ GetMapRequest("map_fuel")
    \/ /\ At("map_fuel")
       /\ inflight.who = "map_fuel"
       /\ inflight.reply # "none"
       /\ inflight' = NoRequest
       /\ IF inflight.reply = "ok" THEN Advance ELSE Raise("FetchError")
       /\ UNCHANGED <<dvars, mode, fetch_failed, mapvars, gdvars>>

\* Every other statement of main(): it runs and control moves on.
MainPlain ==
    /\ Running
    /\ MainSeq[pc] \in PlainSteps
    /\ Advance
    /\ UNCHANGED <<dvars, mode, fetch_failed, mapvars, inflight, gdvars>>

----------------------------------------------------------------------------
\* No DataPrep object is under study.
NoDataPrep ==
    /\ dp_df = <<>>
    /\ dp_map = [set |-> FALSE, names |-> {}]
    /\ dp_op = "none"
    /\ dp_prev = <<>>
    /\ dp_arg = <<>>
    /\ dp_ret = <<>>
    /\ dp_err = "none"

\* No Prepped and no ModelBuilder object is under study.
NoStage ==
    /\ sg_df = <<>>
    /\ sg_in = <<>>
    /\ sg_op = "none"
    /\ sg_data = <<>>
    /\ sg_ret = <<>>
    /\ sg_err = "none"

\* No run of main() and no call of get_data is under study.
NoRun ==
    /\ mode = "off"
    /\ pc = 0
    /\ crashed = "none"
    /\ oplog = <<>>
    /\ fetch_failed = FALSE
    /\ eda_map = FALSE
    /\ gdp_map = FALSE
    /\ co2_map = FALSE
    /\ inflight = NoRequest
    /\ gd_pc = "idle"
    /\ gd_args = <<None, None>>
    /\ gd_i = 0
    /\ gd_end = 0
    /\ df_combined = <<>>
    /\ gd_ret = NoRet
    /\ requests = <<>>
    /\ held = <<>>

Init ==
    /\ NoDataPrep
    /\ NoStage
    /\ mode = "idle"
    /\ pc = 0
    /\ crashed = "none"
    /\ oplog = <<>>
    /\ fetch_failed = FALSE
    /\ eda_map = FALSE
    /\ gdp_map = FALSE
    /\ co2_map = FALSE
    /\ inflight = NoRequest
    /\ gd_pc = "idle"
    /\ gd_args = <<None, None>>
    /\ gd_i = 0
    /\ gd_end = 0
    /\ df_combined = <<>>
    /\ gd_ret = NoRet
    /\ requests = <<>>
    /\ held = <<>>

Next ==
    \/ StartDirect
    \/ StartMain
    \/ GetDataRequest
    \/ GetDataResponse
    \/ GetDataReturn
    \/ MainReadCsv
    \/ MainGetData
    \/ MainGetDataDone
    \/ MainPrintHeads
    \/ EDAPerformer_get_map
    \/ MainGeoNameMap
    \/ DataPrep_init
    \/ MainFilterGdp
    \/ MainFilterCo2
    \/ MainMapFuel
    \/ MainPlain

Spec == Init /\ [][Next]_vars

\* The program is one thread that runs whenever it can take a step.
FairSpec == Spec /\ WF_vars(Next)

----------------------------------------------------------------------------
(* Properties of the fetch loop and of main().                              *)

\* The range the caller asked for: the argument, or the documented default.
ClaimStart == IF gd_args[1] = None THEN 2017 ELSE gd_args[1]
ClaimEnd == IF gd_args[2] = None THEN 2022 ELSE gd_args[2]
ClaimYears == IF ClaimEnd > ClaimStart THEN ClaimEnd - ClaimStart ELSE 0

AllOk == \A k \in 1..Len(requests) : requests[k].reply = "ok"
GetDataCalled == gd_pc # "idle"

\* C1: get_data(start, end) requests the years of [start, end) one after the
\* other in ascending order, each at most once and none outside the range (the
\* k-th request is for year start + k - 1); with an argument left out the range
\* starts at 2017 / ends at 2022.  When every request succeeds, every year of
\* the range has been requested exactly once and the value returned is the
\* per-year tables concatenated in request order.
C1_OneRequestPerYearInOrder ==
    GetDataCalled =>
       /\ \A k \in 1..Len(requests) :
             /\ requests[k].year = ClaimStart + k - 1
             /\ requests[k].year < ClaimEnd
       /\ (gd_pc = "returned" /\ AllOk) =>
             /\ Len(requests) = ClaimYears
             /\ gd_ret.kind = "DataFrame"
             /\ Len(gd_ret.df) = Len(requests)
             /\ \A k \in 1..Len(requests) :
                   /\ gd_ret.df[k].year = requests[k].year
                   /\ gd_ret.df[k].n = ServerPage(held[requests[k].year], 0, 5000)

\* get_data() with no arguments has fetched 2017..2021 and returned five pages.
C1_Witness ==
    /\ gd_pc = "returned"
    /\ gd_args = <<None, None>>
    /\ gd_ret.kind = "DataFrame"
    /\ Len(gd_ret.df) = 5
    /\ requests[1].year = 2017
    /\ requests[5].year = 2021

\* A request that failed and whose failure get_data has seen.
FailedAt(k) ==
    /\ k \in 1..Len(requests)
    /\ requests[k].reply \notin {"ok", "none"}
    /\ ~(k = Len(requests) /\ gd_pc = "await")

\* C2: once the request for a year has failed (non-OK response, or an exception
\* while requesting or decoding), get_data has returned None, the failed request
\* is the last one it issued, and a table is returned only when every year of
\* the range was fetched: never a partial combined table.
C2_FailureReturnsNothing ==
    /\ \A k \in 1..Len(requests) :
          FailedAt(k) => /\ k = Len(requests)
                         /\ gd_pc = "returned"
                         /\ gd_ret = RetNone
    /\ gd_ret.kind = "DataFrame" =>
          /\ AllOk
          /\ Len(gd_ret.df) = ClaimYears

\* The third year failed: the two pages already fetched are discarded.
C2_Witness ==
    /\ gd_pc = "returned"
    /\ gd_ret = RetNone
    /\ Len(requests) = 3
    /\ Len(df_combined) = 2
    /\ requests[3].reply = "not_ok"

Last(s) == s[Len(s)]

\* C3: once an emissions page or a state-boundary fetch has failed, main()
\* executes no further pipeline operation (cleaning, reshaping, grouping,
\* merging, modelling).
C3_FailedFetchAbortsRun ==
    [][fetch_failed =>
          (oplog' = oplog \/ Last(oplog') \notin PipelineOps)]_vars

\* C4: every fetch call comes back: a GET that was issued is eventually over,
\* by a response, an exception or a timeout, whatever the server does.
C4_FetchNeverHangs == (inflight # NoRequest) ~> (inflight = NoRequest)

\* C5: the table a successful get_data returns holds, for each year of the
\* range, every record the API holds for that year.
C5_AllRecordsOfEveryYear ==
    (gd_pc = "returned" /\ gd_ret.kind = "DataFrame") =>
       \A k \in 1..Len(gd_ret.df) :
          gd_ret.df[k].n = held[gd_ret.df[k].year]

\* The statements of stage n executed so far.
DoneOf(n) == {oplog[k] : k \in {j \in 1..Len(oplog) : StageNo(oplog[j]) = n}}

\* All statements of stage n.
AllOf(n) ==
    {s \in {"read_csv", "get_data", "print_heads", "EDAPerformer", "eda_get_map",
             "GeoName_map", "hist_chart", "DataPrep_gdp", "DataPrep_co2",
             "null_check", "drop_null", "delete_columns_gdp", "delete_columns_co2",
             "filter_gdp", "delete_columns_desc", "filter_co2", "gdp_reshape",
             "co2_groupby_year", "co2_groupby_sector", "co2_groupby_fuel",
             "co2_pivot", "gdp_co2", "line_top5gdp", "value_time",
             "sec_name_by_time", "fuel_sector_percen", "plot_pairplot",
             "state_fuel_cluster", "map_fuel", "model_gdp_co2", "scatter",
             "covid_trend"} : StageNo(s) = n}

\* A stage has started only when every earlier stage is finished, and no
\* statement runs twice.
StagesInOrder ==
    /\ \A n \in 2..Len(Stages) :
          DoneOf(n) # {} => \A m \in 1..(n - 1) : DoneOf(m) = AllOf(m)
    /\ \A j, k \in 1..Len(oplog) : oplog[j] = oplog[k] => j = k

\* The regression stage has run to its end.
RegressionDone == mode = "main" /\ DoneOf(6) = AllOf(6)

\* Some fetch of the run has failed or was never answered.
FetchProblem ==
    \/ fetch_failed
    \/ crashed \in {"URLError", "FetchError"}
    \/ inflight.reply = "none" /\ inflight.who # "none"

----------------------------------------------------------------------------
(* Tables.                                                                  *)

\* Most rows an input table is drawn with.
MaxRows == 2

\* A missing numeric cell (NaN).  Every value of the tables is positive.
NaN == -1

\* A missing text cell.
NullStr == "NaN"

AllFuels == "All Fuels"
TotalSector == "Total carbon dioxide emissions from all sectors"
Residential == "Residential carbon dioxide emissions"
Commercial == "Commercial carbon dioxide emissions"
NaturalGas == "Natural Gas"
RealGDP == "Real GDP (millions of chained 2017 dollars) 1/"

\* The strings of the model in Python's order of str (by code point).
StrOrder ==
    << AllFuels, "California", "Coal", Commercial,
       "Current-dollar GDP (millions of current dollars)", NullStr, NaturalGas,
       "Ohio", RealGDP, Residential, "Texas", TotalSector, "United States" >>

StrRank(x) == CHOOSE i \in 1..Len(StrOrder) : StrOrder[i] = x
StrLess(a, b) == StrRank(a) < StrRank(b)

\* The column "name" of the state-boundary reference.
BoundaryNames == {"California", "Ohio", "Texas"}

\* All sequences over S of length at most n.
SeqsUpTo(S, n) == UNION {[1..k -> S] : k \in 0..n}

RECURSIVE SetToSeq(_)
SetToSeq(S) ==
    IF S = {} THEN <<>>
    ELSE LET x == CHOOSE y \in S : TRUE IN <<x>> \o SetToSeq(S \ {x})

\* SumValue as the aggregate "first": the value of one row of the group.
SumValue_First(df, I) == IF I = {} THEN 0 ELSE df[CHOOSE j \in I : TRUE].value

\* The sum of column value over the rows of df with index in I.
RECURSIVE SumValue(_, _)
SumValue(df, I) ==
    IF I = {} THEN 0
    ELSE LET i == CHOOSE j \in I : TRUE IN df[i].value + SumValue(df, I \ {i})

\* The cells of row r in the columns by.
KeyOf(by, r) == [c \in {by[k] : k \in 1..Len(by)} |-> r[c]]

\* The order of two cells of column c: period is a number, the others are text.
CellLess(c, a, b) == IF c = "period" THEN a < b ELSE StrLess(a, b)

\* The order of two keys on the columns by: by the first column that differs.
KeyLess(by, a, b) ==
    \E k \in 1..Len(by) :
       /\ \A m \in 1..(k - 1) : a[by[m]] = b[by[m]]
       /\ CellLess(by[k], a[by[k]], b[by[k]])

\* The distinct keys of df on the columns by, in sorted order.
SortedKeys(df, by) ==
    SortSeq(SetToSeq({KeyOf(by, df[i]) : i \in DOMAIN df}),
            LAMBDA a, b : KeyLess(by, a, b))

\* GroupSum without the grouping: one row per row of df.
GroupSum_NoGroup(df, by) ==
    [i \in DOMAIN df |-> KeyOf(by, df[i]) @@ [value |-> df[i].value]]

\* df.groupby(by).agg({"value": "sum"}).reset_index(): one row per distinct
\* key, in sorted key order, holding the key's columns and the sum of value.
GroupSum(df, by) ==
    LET keys == SortedKeys(df, by)
    IN  [j \in 1..Len(keys) |->
            keys[j] @@ [value |->
                SumValue(df, {i \in DOMAIN df : KeyOf(by, df[i]) = keys[j]})]]

----------------------------------------------------------------------------
(* DataPrep on the emissions table.  A row is a record with the columns     *)
(* period, state_name, sector_name, fuel_name and value.                    *)

\* filter_co2_df without the selection on sector-name.
filter_co2_df_NoSector(df, names) ==
    LET s1 == SelectSeq(df, LAMBDA r : r.state_name \in names)
    IN  SelectSeq(s1, LAMBDA r : r.fuel_name # AllFuels)

\* filter_co2, lines 179-183: three boolean-mask selections in a row.
filter_co2_df(df, names) ==
    LET s1 == SelectSeq(df, LAMBDA r : r.state_name \in names)
        s2 == SelectSeq(s1, LAMBDA r : r.fuel_name # AllFuels)
    IN  SelectSeq(s2, LAMBDA r : r.sector_name # TotalSector)

\* Lines 206-210, 220-224, 234-238 and 264-268.
co2_groupby_year_df(df) == GroupSum(df, <<"period", "state_name">>)
co2_groupby_sector_df(df) == GroupSum(df, <<"period", "sector_name">>)
co2_groupby_fuel_df(df) == GroupSum(df, <<"state_name", "fuel_name">>)
gdp_co2_grouped(df) == GroupSum(df, <<"period", "state_name", "sector_name">>)

\* A method of DataPrep returns: what it leaves in self.df and what it hands back.
Returns(op, arg, df, ret) ==
    /\ dp_op' = op
    /\ dp_prev' = dp_df
    /\ dp_arg' = arg
    /\ dp_df' = df
    /\ dp_ret' = ret
    /\ dp_err' = "none"
    /\ UNCHANGED <<dp_map, fvars, svars>>

\* A method of DataPrep raises, leaving df in self.df.
Raises(op, arg, df, exc) ==
    /\ dp_op' = op
    /\ dp_prev' = dp_df
    /\ dp_arg' = arg
    /\ dp_df' = df
    /\ dp_ret' = <<>>
    /\ dp_err' = exc
    /\ UNCHANGED <<dp_map, fvars, svars>>

\* The grouping and merging methods leave self.df alone, so the tables they can
\* see are those of a DataPrep as constructed or as filter_co2 left it: each is
\* called once on such an object.
Constructed == dp_op = "init"
ConstructedOrFiltered == dp_op \in {"init", "filter_co2"}

filter_co2 ==
    /\ Constructed
    /\ IF dp_map.set
       THEN LET out == filter_co2_df(dp_df, dp_map.names)
            IN  Returns("filter_co2", <<>>, out, out)
       ELSE Raises("filter_co2", <<>>, dp_df, "AttributeError")

co2_groupby_year ==
    /\ ConstructedOrFiltered
    /\ Returns("co2_groupby_year", <<>>, dp_df, co2_groupby_year_df(dp_df))

co2_groupby_sector ==
    /\ ConstructedOrFiltered
    /\ Returns("co2_groupby_sector", <<>>, dp_df, co2_groupby_sector_df(dp_df))

co2_groupby_fuel ==
    /\ ConstructedOrFiltered
    /\ Returns("co2_groupby_fuel", <<>>, dp_df, co2_groupby_fuel_df(dp_df))

\* The row of least index among the rows I of a table.
FirstOf(I) == CHOOSE i \in I : \A j \in I : i <= j

\* pivot_table filling the cells no row falls in with 0.
pivot_table_FillZero(grouped, aggfunc) ==
    LET index == <<"state_name">>
        idx == SortedKeys(grouped, index)
        cats == {grouped[i].fuel_name : i \in DOMAIN grouped}
        Cell(k, c) ==
            LET hit == {i \in DOMAIN grouped :
                           KeyOf(index, grouped[i]) = k /\ grouped[i].fuel_name = c}
            IN  IF hit = {} THEN 0
                ELSE IF aggfunc = "first" THEN grouped[FirstOf(hit)].value
                ELSE SumValue(grouped, hit)
    IN  [j \in 1..Len(idx) |-> idx[j] @@ [c \in cats |-> Cell(idx[j], c)]]

\* grouped.pivot_table(index="state-name", columns="fuel-name", values="value",
\* aggfunc=aggfunc) and reset_index, lines 248-251: one row per state in sorted
\* order, one column per fuel, the cell the aggregate of the rows that fall in
\* it, NaN where none does.
pivot_table(grouped, aggfunc) ==
    LET index == <<"state_name">>
        idx == SortedKeys(grouped, index)
        cats == {grouped[i].fuel_name : i \in DOMAIN grouped}
        Cell(k, c) ==
            LET hit == {i \in DOMAIN grouped :
                           KeyOf(index, grouped[i]) = k /\ grouped[i].fuel_name = c}
            IN  IF hit = {} THEN NaN
                ELSE IF aggfunc = "first" THEN grouped[FirstOf(hit)].value
                ELSE SumValue(grouped, hit)
    IN  [j \in 1..Len(idx) |-> idx[j] @@ [c \in cats |-> Cell(idx[j], c)]]

\* co2_pivot, lines 248-252.  The table co2_groupby_fuel returned is kept
\* beside the value returned, pivot_df.
co2_pivot_run(df) ==
    LET fuel_df == co2_groupby_fuel_df(df)
    IN  [fuel_df |-> fuel_df, pivot_df |-> pivot_table(fuel_df, "first")]

co2_pivot ==
    /\ ConstructedOrFiltered
    /\ Returns("co2_pivot", <<>>, dp_df, co2_pivot_run(dp_df))

\* Column labels of the GDP tables, as Python strings: tuples of characters.
L_GeoName == <<"G", "e", "o", "N", "a", "m", "e">>
L_Year == <<"Y", "e", "a", "r">>
L_GDP == <<"G", "D", "P">>

\* Most rows the long GDP table handed to gdp_co2 is drawn with.
MaxLongRows == 2

\* grouped_df.pivot(index=["period", "state-name"], columns="sector-name",
\* values="value").reset_index(): one row per index pair in sorted order, one
\* column per sector, NaN where the pair has no row for the sector.  pivot
\* raises ValueError when an (index, column) pair occurs twice.
PivotHasDuplicates(grouped) ==
    \E i, j \in DOMAIN grouped :
       /\ i # j
       /\ KeyOf(<<"period", "state_name", "sector_name">>, grouped[i])
             = KeyOf(<<"period", "state_name", "sector_name">>, grouped[j])

gdp_co2_pivot(grouped) ==
    LET index == <<"period", "state_name">>
        idx == SortedKeys(grouped, index)
        cats == {grouped[i].sector_name : i \in DOMAIN grouped}
        Cell(k, c) ==
            LET hit == {i \in DOMAIN grouped :
                           KeyOf(index, grouped[i]) = k /\ grouped[i].sector_name = c}
            IN  IF hit = {} THEN NaN ELSE grouped[CHOOSE i \in hit : TRUE].value
    IN  [j \in 1..Len(idx) |-> idx[j] @@ [c \in cats |-> Cell(idx[j], c)]]

RECURSIVE ConcatAll(_)
ConcatAll(ss) == IF ss = <<>> THEN <<>> ELSE Head(ss) \o ConcatAll(Tail(ss))

\* merge_left as an inner join: a left row without a match is dropped.
merge_left_Inner(left, right) ==
    LET Matches(l) ==
            SelectSeq(right.rows,
                      LAMBDA r : r[L_GeoName] = l.state_name /\ r[L_Year] = l.period)
        Joined(l) ==
            LET m == Matches(l)
            IN  [k \in 1..Len(m) |->
                    l @@ [GeoName |-> m[k][L_GeoName],
                          Year |-> m[k][L_Year],
                          GDP |-> m[k][L_GDP]]]
    IN  ConcatAll([i \in 1..Len(left) |-> Joined(left[i])])

\* pd.merge(left, right, how="left", left_on=["state-name", "period"],
\* right_on=["GeoName", "Year"]): every left row in order, once per matching
\* right row, or once with nulls in the right columns when none matches.
merge_left(left, right) ==
    LET Matches(l) ==
            SelectSeq(right.rows,
                      LAMBDA r : r[L_GeoName] = l.state_name /\ r[L_Year] = l.period)
        Joined(l) ==
            LET m == Matches(l)
            IN  IF m = <<>>
                THEN << l @@ [GeoName |-> NullStr, Year |-> NaN, GDP |-> NaN] >>
                ELSE [k \in 1..Len(m) |->
                         l @@ [GeoName |-> m[k][L_GeoName],
                               Year |-> m[k][L_Year],
                               GDP |-> m[k][L_GDP]]]
    IN  ConcatAll([i \in 1..Len(left) |-> Joined(left[i])])

\* gdp_co2, lines 264-281.  The locals grouped_df and df_emissions_pivot are
\* kept beside the value returned, merged_data.
gdp_co2_run(df, df_gdp) ==
    LET grouped == gdp_co2_grouped(df)
        pivot == gdp_co2_pivot(grouped)
    IN  [grouped_df |-> grouped,
         df_emissions_pivot |-> pivot,
         merged_data |-> merge_left(pivot, df_gdp)]

LongRow(g, y, v) ==
    [c \in {L_GeoName, L_Year, L_GDP} |->
        IF c = L_GeoName THEN g ELSE IF c = L_Year THEN y ELSE v]

\* The long GDP tables gdp_co2 is called with.
LongTables ==
    [cols : {<<L_GeoName, L_Year, L_GDP>>},
     rows : SeqsUpTo({LongRow(g, y, 100) : g \in {"Ohio"}, y \in {2020, 2021}},
                     MaxLongRows)]

gdp_co2 ==
    /\ ConstructedOrFiltered
    /\ \E df_gdp \in LongTables :
        IF PivotHasDuplicates(gdp_co2_grouped(dp_df))
        THEN Raises("gdp_co2", df_gdp, dp_df, "ValueError")
        ELSE Returns("gdp_co2", df_gdp, dp_df, gdp_co2_run(dp_df, df_gdp))

\* The rows the emissions table is drawn from: leaf rows of a state and of a
\* name that is no state, the aggregate rows of one state and year, and a leaf
\* row of another state, sector and fuel.
Co2Rows ==
    { [ period |-> 2021, state_name |-> "Texas", sector_name |-> Commercial,
        fuel_name |-> NaturalGas, value |-> 3 ] }
    \cup
    [ period : {2020, 2021},
      state_name : {"Ohio", "United States"},
      sector_name : {Residential},
      fuel_name : {"Coal"},
      value : {3, 5} ]
    \cup
    ([ period : {2020},
       state_name : {"Ohio"},
       sector_name : {Residential, TotalSector},
       fuel_name : {"Coal", AllFuels},
       value : {5} ]
     \ [ period : {2020}, state_name : {"Ohio"}, sector_name : {Residential},
         fuel_name : {"Coal"}, value : {5} ])

\* A DataPrep built on an emissions table; its get_map succeeded or failed.
InitCo2 ==
    /\ NoRun
    /\ NoStage
    /\ dp_df \in SeqsUpTo(Co2Rows, MaxRows)
    /\ dp_map \in {[set |-> TRUE, names |-> BoundaryNames],
                   [set |-> FALSE, names |-> {}]}
    /\ dp_op = "init"
    /\ dp_prev = <<>>
    /\ dp_arg = <<>>
    /\ dp_ret = <<>>
    /\ dp_err = "none"

NextCo2 ==
    \/ filter_co2
    \/ co2_groupby_year
    \/ co2_groupby_sector
    \/ co2_groupby_fuel
    \/ co2_pivot
    \/ gdp_co2

SpecCo2 == InitCo2 /\ [][NextCo2]_vars

----------------------------------------------------------------------------
(* DataPrep on the GDP table.  A table is its column labels in order and    *)
(* its rows; a row maps each column label to a cell.                        *)

L_Description == <<"D", "e", "s", "c", "r", "i", "p", "t", "i", "o", "n">>
L_Desc == <<"D", "e", "s", "c">>
L_Unit == <<"U", "n", "i", "t">>
L_Region == <<"R", "e", "g", "i", "o", "n">>
L_2017 == <<"2", "0", "1", "7">>
L_2018 == <<"2", "0", "1", "8">>

Digit ==
    [c \in {"0", "1", "2", "3", "4", "5", "6", "7", "8", "9"} |->
        CASE c = "0" -> 0 [] c = "1" -> 1 [] c = "2" -> 2 [] c = "3" -> 3
          [] c = "4" -> 4 [] c = "5" -> 5 [] c = "6" -> 6 [] c = "7" -> 7
          [] c = "8" -> 8 [] c = "9" -> 9]

\* int(label) succeeds: the labels of the model carry no sign and no blanks.
IsIntLabel(label) ==
    /\ Len(label) > 0
    /\ \A i \in 1..Len(label) : label[i] \in DOMAIN Digit

\* int(label), by Horner's rule over the decimal digits.
RECURSIVE ParseInt(_)
ParseInt(label) ==
    IF label = <<>> THEN 0
    ELSE 10 * ParseInt(SubSeq(label, 1, Len(label) - 1)) + Digit[label[Len(label)]]

HasCol(df, c) == \E k \in 1..Len(df.cols) : df.cols[k] = c

\* Python's `c in s` for two strings.
IsSubstring(c, str) ==
    \E i \in 0..(Len(str) - Len(c)) : SubSeq(str, i + 1, i + Len(c)) = c

\* Python's `col in columns_to_exclude`: an element of a list, a substring of a str.
In(col, x) ==
    IF x.kind = "list"
    THEN \E k \in 1..Len(x.items) : x.items[k] = col
    ELSE IsSubstring(col, x.chars)

\* df[[col for col in df.columns if col not in columns_to_exclude]], line 109.
delete_columns_df(df, x) ==
    LET keep == SelectSeq(df.cols, LAMBDA c : ~In(c, x))
        kept == {keep[k] : k \in 1..Len(keep)}
    IN  [cols |-> keep,
         rows |-> [i \in 1..Len(df.rows) |-> [c \in kept |-> df.rows[i][c]]]]

\* df.dropna(subset=["GeoName"]), line 129.
drop_null_df(df) ==
    [df EXCEPT !.rows = SelectSeq(df.rows, LAMBDA r : r[L_GeoName] # NullStr)]

\* Line 166: the rows whose GeoName is a name of the state-boundary reference.
filter_gdp_isin(df, names) ==
    [df EXCEPT !.rows = SelectSeq(df.rows, LAMBDA r : r[L_GeoName] \in names)]

\* filter_gdp_df without the selection on Description.
filter_gdp_df_NoDescription(df, names) == filter_gdp_isin(df, names)

\* Lines 166-169: the selection on GeoName, then the one on Description.
filter_gdp_df(df, names) ==
    LET s1 == filter_gdp_isin(df, names)
    IN  [s1 EXCEPT !.rows = SelectSeq(s1.rows, LAMBDA r : r[L_Description] = RealGDP)]

\* melt_df with the rows of the last year column left out.
melt_df_DropLast(df) ==
    LET vars_ == SelectSeq(df.cols, LAMBDA c : c # L_GeoName)
        n == Len(df.rows)
    IN  [cols |-> <<L_GeoName, L_Year, L_GDP>>,
         rows |-> [k \in 1..(n * (Len(vars_) - 1)) |->
                      LET j == ((k - 1) \div n) + 1
                          i == ((k - 1) % n) + 1
                      IN  LongRow(df.rows[i][L_GeoName], vars_[j], df.rows[i][vars_[j]])]]

\* pd.melt(df, id_vars=["GeoName"], var_name="Year", value_name="GDP"), lines
\* 193-195: for each other column in order, for each row in order, one row
\* (GeoName, the column's label, the cell).
melt_df(df) ==
    LET vars_ == SelectSeq(df.cols, LAMBDA c : c # L_GeoName)
        n == Len(df.rows)
    IN  [cols |-> <<L_GeoName, L_Year, L_GDP>>,
         rows |-> [k \in 1..(n * Len(vars_)) |->
                      LET j == ((k - 1) \div n) + 1
                          i == ((k - 1) % n) + 1
                      IN  LongRow(df.rows[i][L_GeoName], vars_[j], df.rows[i][vars_[j]])]]

\* self.df["Year"].astype(int), line 196: raises when some cell does not parse.
YearCastFails(long) == \E k \in 1..Len(long.rows) : ~IsIntLabel(long.rows[k][L_Year])

astype_int_df(long) ==
    [long EXCEPT !.rows =
        [k \in 1..Len(long.rows) |->
            [long.rows[k] EXCEPT ![L_Year] = ParseInt(long.rows[k][L_Year])]]]

\* A table that has been reshaped is handed on to gdp_co2; the cleaning
\* methods are called on the wide table.
Wide == dp_op # "gdp_reshape"

\* drop_null doing nothing when the table has no column GeoName.
drop_null_Silent ==
    /\ Wide
    /\ IF HasCol(dp_df, L_GeoName)
       THEN Returns("drop_null", <<>>, drop_null_df(dp_df), <<>>)
       ELSE Returns("drop_null", <<>>, dp_df, <<>>)

\* Line 129: dropna(subset=["GeoName"]) raises KeyError for a column that does
\* not exist, before self.df is assigned.
drop_null ==
    /\ Wide
    /\ IF HasCol(dp_df, L_GeoName)
       THEN Returns("drop_null", <<>>, drop_null_df(dp_df), <<>>)
       ELSE Raises("drop_null", <<>>, dp_df, "KeyError")

\* The arguments delete_columns is called with: lists of names, and the str
\* "Description" of line 67 of main().
ExcludeArgs ==
    { [kind |-> "list", items |-> <<L_Unit, L_Region>>],
      [kind |-> "list", items |-> <<L_GeoName>>],
      [kind |-> "str", chars |-> L_Description] }

\* given_df is left out, or it is the table the last call returned.
delete_columns ==
    /\ Wide
    /\ \E x \in ExcludeArgs, given \in {"None", "returned"} :
          /\ given = "returned" => dp_ret # <<>>
          /\ LET df == IF given = "returned" THEN dp_ret ELSE dp_df
                 out == delete_columns_df(df, x)
             IN  Returns("delete_columns", [exclude |-> x, df |-> df], out, out)

filter_gdp ==
    /\ Wide
    /\ IF ~HasCol(dp_df, L_GeoName)
       THEN Raises("filter_gdp", <<>>, dp_df, "KeyError")
       ELSE IF ~dp_map.set
       THEN Raises("filter_gdp", <<>>, dp_df, "AttributeError")
       ELSE IF ~HasCol(dp_df, L_Description)
       THEN Raises("filter_gdp", <<>>, filter_gdp_isin(dp_df, dp_map.names), "KeyError")
       ELSE LET out == filter_gdp_df(dp_df, dp_map.names)
            IN  Returns("filter_gdp", <<>>, out, out)

gdp_reshape ==
    /\ Wide
    /\ IF ~HasCol(dp_df, L_GeoName)
       THEN Raises("gdp_reshape", <<>>, dp_df, "KeyError")
       ELSE LET long == melt_df(dp_df)
            IN  IF YearCastFails(long)
                THEN Raises("gdp_reshape", <<>>, long, "ValueError")
                ELSE Returns("gdp_reshape", <<>>, astype_int_df(long), astype_int_df(long))

GdpCols == <<L_GeoName, L_Unit, L_Description, L_2017, L_2018>>

GdpRow(g, d, a, b) ==
    [c \in {L_GeoName, L_Unit, L_Description, L_2017, L_2018} |->
        IF c = L_GeoName THEN g
        ELSE IF c = L_Unit THEN "Millions of chained 2017 dollars"
        ELSE IF c = L_Description THEN d
        ELSE IF c = L_2017 THEN a ELSE b]

\* The rows the GDP table is drawn from: two states under two descriptions, a
\* row of a name that is no state, and a footnote row without GeoName.
GdpRows ==
    {GdpRow("California", d, 100, 110) :
        d \in {RealGDP, "Current-dollar GDP (millions of current dollars)"}}
    \cup {GdpRow("Texas", d, 90, 95) :
        d \in {RealGDP, "Current-dollar GDP (millions of current dollars)"}}
    \cup {GdpRow("United States", RealGDP, 100, 110), GdpRow(NullStr, NullStr, NaN, NaN)}

\* The same table with its second column under the label "Desc".
GdpColsDesc == <<L_GeoName, L_Desc, L_Description, L_2017, L_2018>>

\* Row r of a table with columns GdpCols, under the labels cols.
Relabel(r, cols) ==
    [c \in {cols[k] : k \in 1..Len(cols)} |->
        r[GdpCols[CHOOSE k \in 1..Len(cols) : cols[k] = c]]]

GdpTables ==
    UNION { { [cols |-> cols, rows |-> [i \in DOMAIN rows |-> Relabel(rows[i], cols)]] :
                rows \in SeqsUpTo(GdpRows, MaxRows) } : cols \in {GdpCols, GdpColsDesc} }

InitGdp ==
    /\ NoRun
    /\ NoStage
    /\ dp_df \in GdpTables
    /\ dp_map \in {[set |-> TRUE, names |-> BoundaryNames],
                   [set |-> FALSE, names |-> {}]}
    /\ dp_op = "init"
    /\ dp_prev = <<>>
    /\ dp_arg = <<>>
    /\ dp_ret = <<>>
    /\ dp_err = "none"

NextGdp ==
    \/ drop_null
    \/ delete_columns
    \/ filter_gdp
    \/ gdp_reshape

SpecGdp == InitGdp /\ [][NextGdp]_vars

----------------------------------------------------------------------------
(* Prepped.value_time and ModelBuilder.state_fuel_cluster.  Both objects    *)
(* keep the table they are built on (self.df = df binds the caller's       *)
(* object, it does not copy it); sg_df is that object.  A table is its      *)
(* column labels in order and its rows.                                     *)

\* Most rows (states) the pivot table handed to ModelBuilder is drawn with.
MaxStates == 5

num_clusters == 5

StateNames ==
    << "Alabama", "Alaska", "Arizona", "Arkansas", "California", "Colorado",
       "Connecticut", "Delaware" >>

FuelNames == << "Coal", NaturalGas, "Petroleum" >>

Co2Cols == << "period", "state_name", "sector_name", "fuel_name", "value" >>

\* The emissions tables a Prepped is built on.
Co2Tables == [cols : {Co2Cols}, rows : SeqsUpTo(Co2Rows, MaxRows)]

\* The table co2_pivot returns for n states and the first m fuels: the column
\* state-name, then one column per fuel in sorted order, one row per state in
\* sorted order; hole is the cell without value, <<0, 0>> for none.
PivotTable(n, m, hole) ==
    LET fuels == SubSeq(FuelNames, 1, m)
        labels == {"state-name"} \cup {fuels[j] : j \in 1..m}
    IN  [cols |-> <<"state-name">> \o fuels,
         rows |-> [i \in 1..n |->
                     [c \in labels |->
                         IF c = "state-name" THEN StateNames[i]
                         ELSE IF \E j \in 1..m : fuels[j] = c /\ hole = <<i, j>>
                         THEN NaN
                         ELSE i + 1]]]

\* The pivot tables a ModelBuilder is built on.  Every state and every fuel of
\* a pivot table has a row of the grouped table, so a table with a cell
\* without value has two states and two fuels at least.
PivotTables ==
    {PivotTable(0, 0, <<0, 0>>)}
    \cup {PivotTable(n, m, <<0, 0>>) : n \in 1..MaxStates, m \in 1..Len(FuelNames)}
    \cup UNION { {PivotTable(n, m, <<i, j>>) : i \in 1..n, j \in 1..m} :
                    n \in 2..MaxStates, m \in 2..Len(FuelNames) }

\* pd.to_datetime(period, format="%Y"): the first of January of the year, here
\* as the number yyyymmdd.
to_datetime(period) == period * 10000 + 101

\* A method of the object returns or raises, leaving df in self.df.
Ends(op, df, data, ret, exc) ==
    /\ sg_op' = op
    /\ sg_df' = df
    /\ sg_data' = data
    /\ sg_ret' = ret
    /\ sg_err' = exc
    /\ UNCHANGED <<sg_in, fvars, dp_df, dp_map, dp_op, dp_prev, dp_arg, dp_ret, dp_err>>

\* prepped.py, line 129: self.df["period"] = pd.to_datetime(self.df["period"],
\* format="%Y") assigns the column of the table the object was built on.  The
\* rest of the method (lines 131-146) reads that table and plots.
value_time ==
    /\ sg_op = "Prepped"
    /\ Ends("value_time",
            [sg_df EXCEPT !.rows =
                [i \in DOMAIN sg_df.rows |->
                    [sg_df.rows[i] EXCEPT !.period = to_datetime(@)]]],
            <<>>, <<>>, "none")

\* fit_predict with the labels counted from 1.
fit_predict_OneBased(n) ==
    {f \in [0..(n - 1) -> 1..num_clusters] :
        \A c \in 1..num_clusters : \E i \in 0..(n - 1) : f[i] = c}

\* AgglomerativeClustering(n_clusters=num_clusters).fit_predict on n samples:
\* the tree is cut into num_clusters clusters, numbered from 0, none of them
\* empty.  Which sample falls in which cluster is not modelled.
fit_predict(n) ==
    {f \in [0..(n - 1) -> 0..(num_clusters - 1)] :
        \A c \in 0..(num_clusters - 1) : \E i \in 0..(n - 1) : f[i] = c}

\* df.iloc[:, 2:], line 69: the columns from the third on.
iloc_from_2(cols) == SubSeq(cols, 3, Len(cols))

\* The scaler raises on no sample or no feature; the clustering raises on a
\* missing value and on fewer samples than clusters.
ClusterFails(df, data) ==
    \/ Len(df.rows) < num_clusters
    \/ Len(data) = 0
    \/ \E i \in DOMAIN df.rows, k \in 1..Len(data) : df.rows[i][data[k]] = NaN

\* results.py, lines 68-82.  df is self.df itself, so df["Cluster"] = clusters
\* adds the column to the table the object was built on, which is also the
\* value returned.
state_fuel_cluster ==
    /\ sg_op = "ModelBuilder"
    /\ LET data == iloc_from_2(sg_df.cols)
       IN  IF ClusterFails(sg_df, data)
           THEN Ends("state_fuel_cluster", sg_df, data, <<>>, "ValueError")
           ELSE \E clusters \in fit_predict(Len(sg_df.rows)) :
                   LET df == [cols |-> Append(sg_df.cols, "Cluster"),
                              rows |-> [i \in DOMAIN sg_df.rows |->
                                          sg_df.rows[i] @@ [Cluster |-> clusters[i - 1]]]]
                   IN  Ends("state_fuel_cluster", df, data, df, "none")

\* Prepped(df) on an emissions table, or ModelBuilder(df) on a pivot table.
InitStage ==
    /\ NoRun
    /\ NoDataPrep
    /\ \/ sg_op = "Prepped" /\ sg_df \in Co2Tables
       \/ sg_op = "ModelBuilder" /\ sg_df \in PivotTables
    /\ sg_in = sg_df
    /\ sg_data = <<>>
    /\ sg_ret = <<>>
    /\ sg_err = "none"

NextStage ==
    \/ value_time
    \/ state_fuel_cluster

SpecStage == InitStage /\ [][NextStage]_vars

----------------------------------------------------------------------------
(* Properties of DataPrep on the emissions table.                           *)

Called(op) == dp_op = op /\ dp_err = "none"

\* How often row r occurs in table df.
Count(df, r) == Cardinality({i \in DOMAIN df : df[i] = r})

LeafRowOfState(r) ==
    /\ r.fuel_name # "All Fuels"
    /\ r.sector_name # "Total carbon dioxide emissions from all sectors"
    /\ r.state_name \in BoundaryNames

\* C6: after filter_co2 no row has fuel-name "All Fuels", none has sector-name
\* "Total carbon dioxide emissions from all sectors", every state-name is a
\* name of the state-boundary reference, and the table holds exactly the input
\* rows that satisfy all three, each as often as the input held it.
C6_FilterCo2Exact ==
    Called("filter_co2") =>
       /\ \A i \in DOMAIN dp_df : LeafRowOfState(dp_df[i])
       /\ \A r \in Co2Rows :
             Count(dp_df, r) = IF LeafRowOfState(r) THEN Count(dp_prev, r) ELSE 0
       /\ dp_ret = dp_df

\* A leaf row of Ohio is kept and a total-sector row of Ohio is dropped.
C6_Witness ==
    /\ Called("filter_co2")
    /\ Len(dp_prev) = 2
    /\ Len(dp_df) = 1
    /\ \E i \in DOMAIN dp_prev :
          /\ dp_prev[i].sector_name = TotalSector
          /\ dp_prev[i].fuel_name = "Coal"
          /\ dp_prev[i].state_name = "Ohio"

\* The key of row r on the grouping columns cols.
KeyOn(cols, r) == [c \in cols |-> r[c]]

\* The sum of value over the first n rows of df whose key on cols is k.
RECURSIVE SumOfKey(_, _, _, _)
SumOfKey(df, n, cols, k) ==
    IF n = 0 THEN 0
    ELSE (IF KeyOn(cols, df[n]) = k THEN df[n].value ELSE 0)
         + SumOfKey(df, n - 1, cols, k)

\* out is in grouped by cols: one row per distinct key of in, with the sum.
GroupedBy(cols, in, out) ==
    /\ \A j \in DOMAIN out : DOMAIN out[j] = cols \cup {"value"}
    /\ \A i, j \in DOMAIN out : i # j => KeyOn(cols, out[i]) # KeyOn(cols, out[j])
    /\ {KeyOn(cols, out[j]) : j \in DOMAIN out} = {KeyOn(cols, in[i]) : i \in DOMAIN in}
    /\ \A j \in DOMAIN out :
          out[j].value = SumOfKey(in, Len(in), cols, KeyOn(cols, out[j]))

\* C8: each grouping returns exactly one row per distinct tuple of its grouping
\* columns, holding the sum of value over the input rows with that tuple, and
\* leaves the DataPrep's own table as it was.
C8_GroupSum ==
    /\ Called("co2_groupby_year") =>
          GroupedBy({"period", "state_name"}, dp_prev, dp_ret) /\ dp_df = dp_prev
    /\ Called("co2_groupby_sector") =>
          GroupedBy({"period", "sector_name"}, dp_prev, dp_ret) /\ dp_df = dp_prev
    /\ Called("co2_groupby_fuel") =>
          GroupedBy({"state_name", "fuel_name"}, dp_prev, dp_ret) /\ dp_df = dp_prev
    /\ Called("gdp_co2") =>
          /\ GroupedBy({"period", "state_name", "sector_name"}, dp_prev,
                       dp_ret.grouped_df)
          /\ dp_df = dp_prev

\* (2020, Ohio, Residential, Coal, 5) and (2020, Ohio, Residential, Coal, 3)
\* grouped by (period, state, sector) inside gdp_co2 give (2020, Ohio, Residential, 8).
C8_Witness ==
    /\ Called("gdp_co2")
    /\ dp_prev = << [period |-> 2020, state_name |-> "Ohio", sector_name |-> Residential,
                     fuel_name |-> "Coal", value |-> 5],
                    [period |-> 2020, state_name |-> "Ohio", sector_name |-> Residential,
                     fuel_name |-> "Coal", value |-> 3] >>
    /\ dp_ret.grouped_df =
          << [period |-> 2020, state_name |-> "Ohio", sector_name |-> Residential,
              value |-> 8] >>

\* No two rows of the long GDP table share (GeoName, Year).
UniqueGdpKeys(rows) ==
    \A i, j \in DOMAIN rows :
       (rows[i][L_GeoName] = rows[j][L_GeoName] /\ rows[i][L_Year] = rows[j][L_Year])
          => i = j

HasGdp(l, rows) ==
    \E i \in DOMAIN rows :
       rows[i][L_GeoName] = l.state_name /\ rows[i][L_Year] = l.period

\* Merged row m is left row l with null GeoName, Year and GDP.
NullExtended(m, l) ==
    /\ DOMAIN m = DOMAIN l \cup {"GeoName", "Year", "GDP"}
    /\ \A c \in DOMAIN l : m[c] = l[c]
    /\ m.GeoName = NullStr
    /\ m.Year = NaN
    /\ m.GDP = NaN

\* C10: the merge of gdp_co2 returns as many rows as the emissions pivot when
\* the GDP table has no duplicate (GeoName, Year), and every pivot row with no
\* GDP row for its state and year is in the result, once, with null GDP,
\* GeoName and Year.
C10_LeftJoinKeepsLeftRows ==
    Called("gdp_co2") =>
       LET left == dp_ret.df_emissions_pivot
           merged == dp_ret.merged_data
       IN  /\ UniqueGdpKeys(dp_arg.rows) => Len(merged) = Len(left)
           /\ \A i \in DOMAIN left :
                 ~HasGdp(left[i], dp_arg.rows) =>
                    Cardinality({k \in DOMAIN merged : NullExtended(merged[k], left[i])}) = 1

\* Ohio 2020 and Ohio 2021 have emissions, the GDP table has Ohio 2020 only:
\* both rows are in the result, the second with null GDP.
C10_Witness ==
    /\ Called("gdp_co2")
    /\ Len(dp_arg.rows) = 1
    /\ dp_arg.rows[1][L_Year] = 2020
    /\ Len(dp_ret.df_emissions_pivot) = 2
    /\ Len(dp_ret.merged_data) = 2
    /\ dp_ret.merged_data[1].GDP = 100
    /\ dp_ret.merged_data[2].GDP = NaN
    /\ dp_ret.merged_data[2].state_name = "Ohio"

\* The rows of a table, as a set.
RowSet(df) == {df[i] : i \in DOMAIN df}

\* pd.melt(wide, id_vars=index, var_name=var, value_name="value"), as a set of
\* rows: one row per row of wide and column outside index.
Unpivot(wide, index, var) ==
    LET ids == {index[k] : k \in 1..Len(index)}
    IN  UNION { { KeyOf(index, wide[i]) @@ (var :> c) @@ ("value" :> wide[i][c]) :
                    c \in (DOMAIN wide[i]) \ ids } : i \in DOMAIN wide }

\* The rows of a melted table that hold a value.
NonNull(rows) == {r \in rows : r.value # NaN}

\* The melted table is the grouped table plus one row without value for each
\* cell of the pivot table that no row of the grouped table falls in.
RoundTripUpToNull(grouped, wide, index, var) ==
    LET melted == Unpivot(wide, index, var)
        by == index \o <<var>>
    IN  /\ NonNull(melted) = RowSet(grouped)
        /\ \A r \in melted \ NonNull(melted) :
              \A g \in RowSet(grouped) : KeyOf(by, g) # KeyOf(by, r)
        /\ Cardinality(melted) =
              Cardinality({KeyOf(index, grouped[i]) : i \in DOMAIN grouped})
                * Cardinality({grouped[i][var] : i \in DOMAIN grouped})

\* C11, as stated: melting the pivot table of co2_pivot, and that of gdp_co2,
\* gives exactly the rows of the grouped table the pivot was made from, also
\* when some index tuple has no row for some category.
C11_PivotMeltRoundTrip ==
    /\ Called("co2_pivot") =>
          Unpivot(dp_ret.pivot_df, <<"state_name">>, "fuel_name")
             = RowSet(dp_ret.fuel_df)
    /\ Called("gdp_co2") =>
          Unpivot(dp_ret.df_emissions_pivot, <<"period", "state_name">>, "sector_name")
             = RowSet(dp_ret.grouped_df)

\* C11, amended: melting the pivot table gives the rows of the grouped table
\* and, besides them, one row with a null value for every (index tuple,
\* category) pair the grouped table has no row for; the rows that hold a value
\* are exactly the rows of the grouped table.
C11_RoundTripUpToNull ==
    /\ Called("co2_pivot") =>
          RoundTripUpToNull(dp_ret.fuel_df, dp_ret.pivot_df,
                            <<"state_name">>, "fuel_name")
    /\ Called("gdp_co2") =>
          RoundTripUpToNull(dp_ret.grouped_df, dp_ret.df_emissions_pivot,
                            <<"period", "state_name">>, "sector_name")

\* co2_pivot has run on a filtered table of two states that burn different
\* fuels: the pivot table has a cell without value.
C11_Witness ==
    /\ Called("co2_pivot")
    /\ dp_prev = filter_co2_df(dp_prev, BoundaryNames)
    /\ Len(dp_ret.fuel_df) = 2
    /\ \E r \in Unpivot(dp_ret.pivot_df, <<"state_name">>, "fuel_name") : r.value = NaN

\* No two rows of a table agree on the columns by.
UniqueOn(df, by) ==
    \A i, j \in DOMAIN df : KeyOf(by, df[i]) = KeyOf(by, df[j]) => i = j

\* C19: at both pivot call sites the keys of the pivot's input are unique.  In
\* co2_pivot no two rows of co2_groupby_fuel's output share (state-name,
\* fuel-name), so the table made with aggfunc "first" is the one "sum" makes;
\* in gdp_co2 no two rows of the grouped table share (period, state-name,
\* sector-name), so pivot never raises on duplicate entries.
C19_PivotKeysUnique ==
    /\ Called("co2_pivot") =>
          /\ UniqueOn(dp_ret.fuel_df, <<"state_name", "fuel_name">>)
          /\ dp_ret.pivot_df = pivot_table(dp_ret.fuel_df, "sum")
    /\ dp_op = "gdp_co2" =>
          /\ dp_err = "none"
          /\ UniqueOn(dp_ret.grouped_df, <<"period", "state_name", "sector_name">>)

\* co2_pivot has run on a table with two rows of one state and fuel and
\* different values: they fall in one cell, which holds their sum.
C19_Witness ==
    /\ Called("co2_pivot")
    /\ Len(dp_prev) = 2
    /\ dp_prev[1].value # dp_prev[2].value
    /\ Len(dp_ret.fuel_df) = 1
    /\ dp_ret.pivot_df[1]["Coal"] = dp_prev[1].value + dp_prev[2].value

----------------------------------------------------------------------------
(* Properties of DataPrep on the GDP table.                                 *)

RowsOf(df) == {df.rows[i] : i \in DOMAIN df.rows}

RealGdpOfState(r) ==
    /\ r[L_Description] = "Real GDP (millions of chained 2017 dollars) 1/"
    /\ r[L_GeoName] \in BoundaryNames

\* C7: after filter_gdp every row has Description "Real GDP (millions of
\* chained 2017 dollars) 1/" and a GeoName of the state-boundary reference, and
\* every input row with both is retained, as often as the input held it; the
\* columns are untouched.
C7_FilterGdpExact ==
    Called("filter_gdp") =>
       /\ dp_df.cols = dp_prev.cols
       /\ \A r \in RowsOf(dp_df) : RealGdpOfState(r)
       /\ \A r \in RowsOf(dp_prev) \cup RowsOf(dp_df) :
             Count(dp_df.rows, r) = IF RealGdpOfState(r) THEN Count(dp_prev.rows, r) ELSE 0
       /\ dp_ret = dp_df

\* The real-GDP row of California is kept, its current-dollar row is dropped.
C7_Witness ==
    /\ Called("filter_gdp")
    /\ Len(dp_prev.rows) = 2
    /\ dp_prev.rows[1][L_GeoName] = "California"
    /\ dp_prev.rows[2][L_GeoName] = "California"
    /\ dp_prev.rows[1][L_Description] # RealGDP
    /\ Len(dp_df.rows) = 1
    /\ dp_df.rows[1] = dp_prev.rows[2]

\* The year a label of the GDP table stands for.
YearOfLabel == (L_2017 :> 2017) @@ (L_2018 :> 2018)

NonIdCols(df) == SelectSeq(df.cols, LAMBDA c : c # L_GeoName)

\* C9: gdp_reshape turns a wide table of n rows and m columns besides GeoName
\* into the long table of n*m rows with columns GeoName, Year, GDP: for each
\* such column in order and each row in order, the row's GeoName, the column's
\* label as an integer, and the row's cell in that column.
C9_ReshapeOneRowPerCell ==
    Called("gdp_reshape") =>
       LET n == Len(dp_prev.rows)
           ys == NonIdCols(dp_prev)
       IN  /\ dp_df.cols = <<L_GeoName, L_Year, L_GDP>>
           /\ Len(dp_df.rows) = n * Len(ys)
           /\ \A i \in 1..n, j \in 1..Len(ys) :
                 LET long == dp_df.rows[(j - 1) * n + i]
                 IN  /\ long[L_GeoName] = dp_prev.rows[i][L_GeoName]
                     /\ long[L_Year] = YearOfLabel[ys[j]]
                     /\ long[L_GDP] = dp_prev.rows[i][ys[j]]
           /\ dp_ret = dp_df

\* California (100, 110) and Texas (90, 95) under 2017 and 2018 give the rows
\* (California, 2017, 100), (Texas, 2017, 90), (California, 2018, 110),
\* (Texas, 2018, 95).
C9_Witness ==
    /\ Called("gdp_reshape")
    /\ dp_prev.cols = <<L_GeoName, L_2017, L_2018>>
    /\ Len(dp_prev.rows) = 2
    /\ RowsOf(dp_df) = { LongRow("California", 2017, 100), LongRow("California", 2018, 110),
                         LongRow("Texas", 2017, 90), LongRow("Texas", 2018, 95) }
    /\ Len(dp_df.rows) = 4

\* The names an argument of delete_columns names: the items of a list, or the
\* one name a str is.
Named(x) ==
    IF x.kind = "list" THEN {x.items[k] : k \in 1..Len(x.items)} ELSE {x.chars}

\* C14: delete_columns removes exactly the named columns.  The result keeps
\* the columns of the table it is applied to (given_df, or self.df) whose name
\* is not among the names given, in their order and with their cells, drops
\* the others, and raises no error for a name that is no column; this also
\* when the argument is the single name "Description".
C14_DeleteColumnsExact ==
    dp_op = "delete_columns" =>
       LET in == dp_arg.df
           keep == SelectSeq(in.cols, LAMBDA c : c \notin Named(dp_arg.exclude))
       IN  /\ dp_err = "none"
           /\ dp_df.cols = keep
           /\ Len(dp_df.rows) = Len(in.rows)
           /\ \A i \in DOMAIN in.rows : \A k \in 1..Len(keep) :
                 dp_df.rows[i][keep[k]] = in.rows[i][keep[k]]
           /\ dp_ret = dp_df

\* C15: drop_null removes exactly the rows whose GeoName is null: every row
\* left has a GeoName, every input row with a GeoName is left as often as the
\* input held it, and the columns are untouched.  On a table without the
\* column GeoName the call raises (pandas' KeyError for a column that does not
\* exist, the error kind the specification calls ConfigurationError) and
\* leaves the table as it was.
C15_DropNullExactOrError ==
    dp_op = "drop_null" =>
       IF HasCol(dp_prev, L_GeoName)
       THEN /\ dp_err = "none"
            /\ dp_df.cols = dp_prev.cols
            /\ \A r \in RowsOf(dp_df) : r[L_GeoName] # NullStr
            /\ \A r \in RowsOf(dp_prev) :
                  Count(dp_df.rows, r) =
                     IF r[L_GeoName] # NullStr THEN Count(dp_prev.rows, r) ELSE 0
       ELSE /\ dp_err = "KeyError"
            /\ dp_df = dp_prev

\* A footnote row without GeoName is dropped, the row of a state is kept.
C15_Witness ==
    /\ Called("drop_null")
    /\ Len(dp_prev.rows) = 2
    /\ dp_prev.rows[1][L_GeoName] = NullStr
    /\ dp_prev.rows[2][L_GeoName] = "Texas"
    /\ dp_df.rows = << dp_prev.rows[2] >>

\* C16: gdp_reshape fails (the MalformedDataError of the specification)
\* whenever the table has a column besides GeoName whose label is no integer.
C16_ReshapeFailsOnBadLabel ==
    ( /\ dp_op = "gdp_reshape"
      /\ \E k \in 1..Len(dp_prev.cols) :
            dp_prev.cols[k] # L_GeoName /\ ~IsIntLabel(dp_prev.cols[k]) )
    => dp_err # "none"

----------------------------------------------------------------------------
(* Properties of Prepped and ModelBuilder.                                  *)

Clustered == sg_op = "state_fuel_cluster" /\ sg_err = "none"

\* C12: state_fuel_cluster cuts into 5 clusters: the table it returns has the
\* columns of its input and then the column Cluster, and the rows of its
\* input, in order and cell by cell, each with one label out of 0, 1, 2, 3, 4
\* in Cluster.
C12_OneLabelPerRow ==
    Clustered =>
       /\ sg_ret.cols = sg_in.cols \o <<"Cluster">>
       /\ Len(sg_ret.rows) = Len(sg_in.rows)
       /\ \A i \in DOMAIN sg_in.rows :
             /\ sg_ret.rows[i]["Cluster"] \in {0, 1, 2, 3, 4}
             /\ \A k \in 1..Len(sg_in.cols) :
                   sg_ret.rows[i][sg_in.cols[k]] = sg_in.rows[i][sg_in.cols[k]]

\* Five states have been clustered.
C12_Witness ==
    /\ Clustered
    /\ Len(sg_in.rows) = 5
    /\ Len(sg_in.cols) = 4
    /\ {sg_ret.rows[i]["Cluster"] : i \in 1..5} = {0, 1, 2, 3, 4}

\* C13: the data state_fuel_cluster standardizes and clusters are the fuel
\* columns of the pivot table, all of them and nothing else: every column of
\* its input but state-name.
C13_AllFuelColumnsAreFeatures ==
    sg_op = "state_fuel_cluster" =>
       sg_data = SelectSeq(sg_in.cols, LAMBDA c : c # "state-name")

\* C17: no operation changes a table it was given: after value_time and after
\* state_fuel_cluster, the table the object was built on has the rows, columns
\* and cells it had before.
C17_NoInPlaceMutation ==
    sg_op \in {"value_time", "state_fuel_cluster"} => sg_df = sg_in

============================================================================
